---- MODULE Spec2Model ----
(***************************************************************************)
(* Size resolution (SizeController), flex alignment (FlexAlignController)   *)
(* and the float anchors (Layout.resize) of the layout library, as a state *)
(* machine.                                                                *)
(*                                                                         *)
(* Numbers are JavaScript numbers.  They are modelled exactly, as          *)
(* fractions n/d in lowest terms with d > 0; d = 0 holds the IEEE          *)
(* specials (NaN, +Infinity, -Infinity) that a division by zero produces,  *)
(* and d = -1 is the JavaScript value undefined.  Rounding of binary       *)
(* floating point is not modelled.                                         *)
(***************************************************************************)
EXTENDS Integers, Sequences, FiniteSets, TLC

VARIABLES style, layout, last

vars == <<style, layout, last>>

----------------------------------------------------------------------------
(* JavaScript numbers *)

Abs(i) == IF i < 0 THEN -i ELSE i

Sign(i) == IF i < 0 THEN -1 ELSE IF i > 0 THEN 1 ELSE 0

RECURSIVE GCD(_, _)
GCD(a, b) == IF b = 0 THEN a ELSE GCD(b, a % b)

NaN == [n |-> 0, d |-> 0]

Infinity == [n |-> 1, d |-> 0]

NegInfinity == [n |-> -1, d |-> 0]

Undefined == [n |-> 0, d |-> -1]

\* the fraction n/d of two integers, d # 0, in lowest terms
Frac(n, d) ==
    LET g == GCD(Abs(n), Abs(d))
    IN  [n |-> Sign(d) * (n \div g), d |-> Abs(d) \div g]

R(i) == [n |-> i, d |-> 1]

\* ToNumber: undefined becomes NaN
ToNumber(a) == IF a.d < 0 THEN NaN ELSE a

IsNaN(a) == ToNumber(a) = NaN

IsFinite(a) == a.d > 0

Neg(a) == LET x == ToNumber(a) IN [n |-> -x.n, d |-> x.d]

Add(a, b) ==
    LET x == ToNumber(a)
        y == ToNumber(b)
    IN  IF x = NaN \/ y = NaN THEN NaN
        ELSE IF x.d = 0 /\ y.d = 0 THEN (IF x = y THEN x ELSE NaN)
        ELSE IF x.d = 0 THEN x
        ELSE IF y.d = 0 THEN y
        ELSE Frac(x.n * y.d + y.n * x.d, x.d * y.d)

Sub(a, b) == Add(a, Neg(b))

Mul(a, b) ==
    LET x == ToNumber(a)
        y == ToNumber(b)
    IN  IF x = NaN \/ y = NaN THEN NaN
        ELSE IF x.d = 0 \/ y.d = 0
             THEN (IF x.n = 0 \/ y.n = 0 THEN NaN
                   ELSE [n |-> Sign(x.n) * Sign(y.n), d |-> 0])
        ELSE Frac(x.n * y.n, x.d * y.d)

Div(a, b) ==
    LET x == ToNumber(a)
        y == ToNumber(b)
    IN  IF x = NaN \/ y = NaN THEN NaN
        ELSE IF y.d = 0 THEN (IF x.d = 0 THEN NaN ELSE R(0))
        ELSE IF y.n = 0 THEN (IF x.n = 0 THEN NaN ELSE [n |-> Sign(x.n), d |-> 0])
        ELSE IF x.d = 0 THEN [n |-> Sign(x.n) * Sign(y.n), d |-> 0]
        ELSE Frac(x.n * y.d, x.d * y.n)

\* a < b; false when either side is NaN
Lt(a, b) ==
    LET x == ToNumber(a)
        y == ToNumber(b)
    IN  /\ x # NaN
        /\ y # NaN
        /\ IF x.d = 0 /\ y.d = 0 THEN x.n < y.n
           ELSE x.n * y.d < y.n * x.d

Gt(a, b) == Lt(b, a)

Le(a, b) == ~IsNaN(a) /\ ~IsNaN(b) /\ ~Lt(b, a)

Ge(a, b) == Le(b, a)

\* Math.min
MathMin(a, b) ==
    IF IsNaN(a) \/ IsNaN(b) THEN NaN
    ELSE IF Lt(b, a) THEN ToNumber(b) ELSE ToNumber(a)

\* a === 0
IsZero(a) == a = R(0)

\* truthiness of an optional number
Truthy(a) == a.d >= 0 /\ a # NaN /\ a # R(0)

\* Math.floor of a finite number, as an integer
Floor(a) == a.n \div a.d

----------------------------------------------------------------------------
(* FlexNumber: a number of pixels, a percentage string, 'auto', or unset *)

Px(i) == [k |-> "px", v |-> R(i)]

Pct(p) == [k |-> "pct", v |-> R(p)]

Auto == [k |-> "auto", v |-> R(0)]

Unset == [k |-> "unset", v |-> Undefined]

\* a FlexNumber that is already a number
Num(a) == [k |-> "px", v |-> a]

\* value === 0
IsLiteralZero(f) == f.k = "px" /\ IsZero(f.v)

\* if (maxWidth || maxHeight): a non-empty string is truthy, a number when non-zero
TruthyFlex(f) ==
    CASE f.k = "px" -> Truthy(f.v)
      [] f.k = "unset" -> FALSE
      [] OTHER -> TRUE

\* getNumber(value, maxPercentValue)
getNumber(f, maxPercentValue) ==
    CASE f.k = "px" -> f.v
      [] f.k = "pct" -> Mul(Div(f.v, R(100)), maxPercentValue)
      [] OTHER -> Undefined

----------------------------------------------------------------------------
(* The text leaf: an external measurement provider.  The text is WordCount *)
(* words of WordWidth pixels each; unwrapped it is one line, wrapped it    *)
(* holds as many whole words per line as fit in wordWrapWidth (at least    *)
(* one), and every line is LineHeight high.                                *)

WordCount == 3

WordWidth == 40

LineHeight == 10

DefaultWordWrapWidth == 100

WordsPerLine(t) ==
    IF ~t.wordWrap THEN WordCount
    ELSE IF ~IsFinite(t.wordWrapWidth) \/ Lt(t.wordWrapWidth, R(WordWidth)) THEN 1
    ELSE IF Floor(t.wordWrapWidth) \div WordWidth > WordCount THEN WordCount
    ELSE Floor(t.wordWrapWidth) \div WordWidth

\* Text.width
TextWidth(t) == R(WordsPerLine(t) * WordWidth)

\* Text.height
TextHeight(t) ==
    R(((WordCount + WordsPerLine(t) - 1) \div WordsPerLine(t)) * LineHeight)

----------------------------------------------------------------------------
(* FlexAlignController *)

Reverse(s) == [i \in 1..Len(s) |-> s[Len(s) + 1 - i]]

RECURSIVE SumWidth(_, _)
\* items.reduce((acc, child) => acc + child.width, 0), from index i on
SumWidth(items, i) ==
    IF i > Len(items) THEN R(0)
    ELSE Add(items[i].width, SumWidth(items, i + 1))

RECURSIVE alignFlexColumnFrom(_, _, _)
alignFlexColumnFrom(items, i, y) ==
    IF i > Len(items) THEN items
    ELSE alignFlexColumnFrom([items EXCEPT ![i].y = y], i + 1,
                             Add(y, items[i].height))

alignFlexColumn(items) == alignFlexColumnFrom(items, 1, R(0))

RECURSIVE packRowAccumulating(_, _, _, _, _)
\* packRow with child.x += x + lead in place of child.x = x + lead
packRowAccumulating(items, i, x, lead, gap) ==
    IF i > Len(items) THEN items
    ELSE packRowAccumulating(
             [items EXCEPT ![i].x = Add(items[i].x, Add(x, lead))], i + 1,
             Add(x, Add(items[i].width, gap)), lead, gap)

RECURSIVE packRow(_, _, _, _, _)
\* forEach: child.x = x + lead; x += child.width + gap
packRow(items, i, x, lead, gap) ==
    IF i > Len(items) THEN items
    ELSE packRow([items EXCEPT ![i].x = Add(x, lead)], i + 1,
                 Add(x, Add(items[i].width, gap)), lead, gap)

RECURSIVE packRowEndByLeftEdge(_, _, _, _)
\* packRowEnd with child.x = root.width - x, the child's width forgotten
packRowEndByLeftEdge(items, i, x, rootWidth) ==
    IF i > Len(items) THEN items
    ELSE packRowEndByLeftEdge([items EXCEPT ![i].x = Sub(rootWidth, x)],
                              i + 1, Add(x, items[i].width), rootWidth)

RECURSIVE packRowEnd(_, _, _, _)
\* forEach: child.x = root.width - x - child.width; x += child.width
packRowEnd(items, i, x, rootWidth) ==
    IF i > Len(items) THEN items
    ELSE packRowEnd([items EXCEPT ![i].x = Sub(Sub(rootWidth, x), items[i].width)],
                    i + 1, Add(x, items[i].width), rootWidth)

IsStart(justifyContent) ==
    justifyContent \notin {"flex-end", "end", "right", "center", "space-between",
                           "space-around", "space-evenly", "stretch"}

IsEnd(justifyContent) == justifyContent \in {"flex-end", "end", "right"}

\* alignNowrap with the space-between gap divided by n in place of n - 1
alignNowrapGapByCount(items, justifyContent, rootWidth) ==
    LET totalWidth == SumWidth(items, 1)
        offset == Div(Sub(rootWidth, totalWidth), R(2))
        space == Sub(rootWidth, totalWidth)
        n == R(Len(items))
    IN  CASE IsEnd(justifyContent) ->
               Reverse(packRowEnd(Reverse(items), 1, R(0), rootWidth))
          [] justifyContent = "center" ->
               packRow(items, 1, R(0), offset, R(0))
          [] justifyContent = "space-between" ->
               packRow(items, 1, R(0), R(0), Div(space, n))
          [] justifyContent = "space-around" ->
               packRow(items, 1, R(0), Div(Div(space, R(2)), n), Div(space, n))
          [] justifyContent = "space-evenly" ->
               packRow(items, 1, R(0), Div(space, Add(n, R(1))),
                       Div(space, Add(n, R(1))))
          [] justifyContent = "stretch" -> items
          [] OTHER -> packRow(items, 1, R(0), R(0), R(0))

alignNowrap(items, justifyContent, rootWidth) ==
    LET totalWidth == SumWidth(items, 1)
        offset == Div(Sub(rootWidth, totalWidth), R(2))
        space == Sub(rootWidth, totalWidth)
        n == R(Len(items))
    IN  CASE IsEnd(justifyContent) ->
               Reverse(packRowEnd(Reverse(items), 1, R(0), rootWidth))
          [] justifyContent = "center" ->
               packRow(items, 1, R(0), offset, R(0))
          [] justifyContent = "space-between" ->
               packRow(items, 1, R(0), R(0), Div(space, Sub(n, R(1))))
          [] justifyContent = "space-around" ->
               packRow(items, 1, R(0), Div(Div(space, R(2)), n), Div(space, n))
          [] justifyContent = "space-evenly" ->
               packRow(items, 1, R(0), Div(space, Add(n, R(1))),
                       Div(space, Add(n, R(1))))
          [] justifyContent = "stretch" -> items
          [] OTHER -> packRow(items, 1, R(0), R(0), R(0))

RECURSIVE shiftLine(_, _, _, _)
\* for (i = from; i <= to; i++) items[i].x += offset
shiftLine(items, from, to, offset) ==
    IF from > to THEN items
    ELSE shiftLine([items EXCEPT ![from].x = Add(items[from].x, offset)],
                   from + 1, to, offset)

RECURSIVE spreadLine(_, _, _, _, _)
\* for (i = from; i <= to; i++) { items[i].x += step * number; number++ }
spreadLine(items, from, to, step, number) ==
    IF from > to THEN items
    ELSE spreadLine([items EXCEPT ![from].x = Add(items[from].x, Mul(step, R(number)))],
                    from + 1, to, step, number + 1)

RECURSIVE placeLine(_, _, _, _, _, _)
\* for (i = from; i <= to; i++) { items[i].x = tmpX + lead; tmpX += items[i].width + gap }
placeLine(items, from, to, tmpX, lead, gap) ==
    IF from > to THEN items
    ELSE placeLine([items EXCEPT ![from].x = Add(tmpX, lead)], from + 1, to,
                   Add(tmpX, Add(items[from].width, gap)), lead, gap)

\* the justification of a line that the child at id overflows (inside the loop)
justifyBrokenLine(items, justifyContent, rootWidth, first, id, x) ==
    LET space == Sub(rootWidth, x)
    IN  CASE IsEnd(justifyContent) -> shiftLine(items, first, id, space)
          [] justifyContent = "center" ->
               shiftLine(items, first, id, Div(space, R(2)))
          [] justifyContent = "space-between" ->
               spreadLine(items, first, id, Div(space, R(id - first - 1)), 0)
          [] justifyContent = "space-around" ->
               placeLine(items, first, id, R(0),
                         Div(Div(space, R(2)), R(id - first)),
                         Div(space, R(id - first)))
          [] justifyContent = "space-evenly" ->
               placeLine(items, first, id, R(0),
                         Div(space, R(id - first + 1)),
                         Div(space, R(id - first + 1)))
          [] OTHER -> items

\* justifyLastLine that leaves the last line as the loop packed it
justifyLastLineSkipped(items, justifyContent, rootWidth, first, x) == items

\* the justification of the last line (after the loop)
justifyLastLine(items, justifyContent, rootWidth, first, x) ==
    LET space == Sub(rootWidth, x)
        id == Len(items)
    IN  CASE IsEnd(justifyContent) -> shiftLine(items, first, id, space)
          [] justifyContent = "center" ->
               shiftLine(items, first, id, Div(space, R(2)))
          [] justifyContent = "space-between" ->
               spreadLine(items, first, id,
                          IF id - first > 0 THEN Div(space, R(id - first)) ELSE space,
                          0)
          [] justifyContent = "space-around" ->
               placeLine(items, first, id, R(0),
                         Div(Div(space, R(2)), R(id - first + 1)),
                         Div(space, R(id - first + 1)))
          [] justifyContent = "space-evenly" ->
               placeLine(items, first, id, R(0),
                         Div(space, R(id - first + 2)),
                         Div(space, R(id - first + 2)))
          [] OTHER -> items

RECURSIVE wrapLoopKeepingMax(_, _, _, _, _, _, _, _)
\* wrapLoop without maxChildHeight = 0 at a line break
wrapLoopKeepingMax(items, justifyContent, rootWidth, id, x, y, maxChildHeight, first) ==
    IF id > Len(items)
    THEN justifyLastLine(items, justifyContent, rootWidth, first, x)
    ELSE LET child == items[id]
             placed == [items EXCEPT ![id].x = x, ![id].y = y]
             breaks == Gt(Add(x, child.width), rootWidth)
             y2 == IF breaks THEN Add(y, maxChildHeight) ELSE y
             justified == justifyBrokenLine(placed, justifyContent, rootWidth,
                                            first, id, x)
             items2 == IF breaks
                       THEN [justified EXCEPT ![id].x = R(0), ![id].y = y2]
                       ELSE placed
             x2 == IF breaks THEN child.width ELSE Add(x, child.width)
             max3 == IF Gt(child.height, maxChildHeight) THEN child.height
                     ELSE maxChildHeight
             first2 == IF breaks /\ ~IsStart(justifyContent) THEN id ELSE first
         IN  wrapLoopKeepingMax(items2, justifyContent, rootWidth, id + 1, x2, y2,
                                max3, first2)

RECURSIVE wrapLoop(_, _, _, _, _, _, _, _)
\* the forEach of alignRowWrapStart/End/Center/SpaceBetween/SpaceAround/
\* SpaceEvenly, followed by the justification of the last line
wrapLoop(items, justifyContent, rootWidth, id, x, y, maxChildHeight, first) ==
    IF id > Len(items)
    THEN justifyLastLine(items, justifyContent, rootWidth, first, x)
    ELSE LET child == items[id]
             placed == [items EXCEPT ![id].x = x, ![id].y = y]
             breaks == Gt(Add(x, child.width), rootWidth)
             y2 == IF breaks THEN Add(y, maxChildHeight) ELSE y
             justified == justifyBrokenLine(placed, justifyContent, rootWidth,
                                            first, id, x)
             items2 == IF breaks
                       THEN [justified EXCEPT ![id].x = R(0), ![id].y = y2]
                       ELSE placed
             x2 == IF breaks THEN child.width ELSE Add(x, child.width)
             max2 == IF breaks THEN R(0) ELSE maxChildHeight
             max3 == IF Gt(child.height, max2) THEN child.height ELSE max2
             first2 == IF breaks /\ ~IsStart(justifyContent) THEN id ELSE first
         IN  wrapLoop(items2, justifyContent, rootWidth, id + 1, x2, y2, max3,
                      first2)

alignRowWrapStart(items, rootWidth) ==
    wrapLoop(items, "start", rootWidth, 1, R(0), R(0), R(0), 1)

alignRowWrapEnd(items, rootWidth) ==
    wrapLoop(items, "end", rootWidth, 1, R(0), R(0), R(0), 1)

alignRowWrapCenter(items, rootWidth) ==
    wrapLoop(items, "center", rootWidth, 1, R(0), R(0), R(0), 1)

alignRowWrapSpaceBetween(items, rootWidth) ==
    wrapLoop(items, "space-between", rootWidth, 1, R(0), R(0), R(0), 1)

alignRowWrapSpaceAround(items, rootWidth) ==
    wrapLoop(items, "space-around", rootWidth, 1, R(0), R(0), R(0), 1)

alignRowWrapSpaceEvenly(items, rootWidth) ==
    wrapLoop(items, "space-evenly", rootWidth, 1, R(0), R(0), R(0), 1)

alignRowWrap(items, justifyContent, rootWidth) ==
    CASE IsEnd(justifyContent) -> alignRowWrapEnd(items, rootWidth)
      [] justifyContent = "center" -> alignRowWrapCenter(items, rootWidth)
      [] justifyContent = "space-between" ->
           alignRowWrapSpaceBetween(items, rootWidth)
      [] justifyContent = "space-around" ->
           alignRowWrapSpaceAround(items, rootWidth)
      [] justifyContent = "space-evenly" ->
           alignRowWrapSpaceEvenly(items, rootWidth)
      [] justifyContent = "stretch" -> items
      [] OTHER -> alignRowWrapStart(items, rootWidth)

RECURSIVE reverseRows(_, _, _, _, _)
\* the first forEach of alignRowReverse: sets x and collects the rows (as
\* lists of item indices); its y and maxChildHeight are never read
reverseRows(items, rootWidth, id, x, rows) ==
    IF id > Len(items) THEN [items |-> items, rows |-> rows]
    ELSE LET child == items[id]
             breaks == Gt(Add(x, child.width), rootWidth)
             currentRow == Len(rows)
         IN  IF breaks
             THEN reverseRows([items EXCEPT ![id].x = R(0)], rootWidth, id + 1,
                              child.width, Append(rows, <<id>>))
             ELSE reverseRows([items EXCEPT ![id].x = x], rootWidth, id + 1,
                              Add(x, child.width),
                              [rows EXCEPT ![currentRow] = Append(@, id)])

RECURSIVE rowMaxHeight(_, _, _, _)
\* row.forEach: if (maxHeight[rowID + 1] < child.height) maxHeight[rowID + 1] = child.height
rowMaxHeight(items, row, k, acc) ==
    IF k > Len(row) THEN acc
    ELSE rowMaxHeight(items, row, k + 1,
                      IF Lt(acc, items[row[k]].height) THEN items[row[k]].height
                      ELSE acc)

RECURSIVE setRowY(_, _, _, _)
\* row.forEach: child.y = maxHeight[rowID]
setRowY(items, row, k, y) ==
    IF k > Len(row) THEN items
    ELSE setRowY([items EXCEPT ![row[k]].y = y], row, k + 1, y)

RECURSIVE stackRows(_, _, _, _)
\* rows.reverse().forEach((row, rowID) => ...), prevMax being maxHeight[rowID]
stackRows(items, rows, rowID, prevMax) ==
    IF rowID > Len(rows) THEN items
    ELSE stackRows(setRowY(items, rows[rowID], 1, prevMax), rows, rowID + 1,
                   rowMaxHeight(items, rows[rowID], 1, R(0)))

alignRowReverse(items, justifyContent, rootWidth) ==
    LET pass == reverseRows(items, rootWidth, 1, R(0), << <<>> >>)
    IN  stackRows(pass.items, Reverse(pass.rows), 1, R(0))

alignFlexRow(items, st, rootWidth) ==
    CASE st.flexWrap = "wrap-reverse" ->
           alignRowReverse(items, st.justifyContent, rootWidth)
      [] st.flexWrap = "wrap" -> alignRowWrap(items, st.justifyContent, rootWidth)
      [] OTHER -> alignNowrap(items, st.justifyContent, rootWidth)

FlexDirections == {"row", "row-reverse", "column", "column-reverse"}

\* FlexAlignController.update throws on any other flexDirection
flexThrows(st) == st.flexDirection \notin FlexDirections

\* update() with items.reverse() (in place) for items.slice().reverse()
flexUpdateReversingInPlace(items, st, rootWidth) ==
    CASE st.flexDirection = "row" -> alignFlexRow(items, st, rootWidth)
      [] st.flexDirection = "row-reverse" ->
           alignFlexRow(Reverse(items), st, rootWidth)
      [] st.flexDirection = "column" -> alignFlexColumn(items)
      [] st.flexDirection = "column-reverse" -> alignFlexColumn(Reverse(items))
      [] OTHER -> items

\* update() with the default case aligning as a row in place of throwing
flexUpdateRowByDefault(items, st, rootWidth) ==
    CASE st.flexDirection = "row-reverse" ->
           Reverse(alignFlexRow(Reverse(items), st, rootWidth))
      [] st.flexDirection = "column" -> alignFlexColumn(items)
      [] st.flexDirection = "column-reverse" ->
           Reverse(alignFlexColumn(Reverse(items)))
      [] OTHER -> alignFlexRow(items, st, rootWidth)

\* FlexAlignController.update: the items after the call (unchanged when it throws)
flexUpdate(items, st, rootWidth) ==
    CASE st.flexDirection = "row" -> alignFlexRow(items, st, rootWidth)
      [] st.flexDirection = "row-reverse" ->
           Reverse(alignFlexRow(Reverse(items), st, rootWidth))
      [] st.flexDirection = "column" -> alignFlexColumn(items)
      [] st.flexDirection = "column-reverse" ->
           Reverse(alignFlexColumn(Reverse(items)))
      [] OTHER -> items

----------------------------------------------------------------------------
(* SizeController *)

\* content.children.length === 1 && content.children[0] instanceof Text
isItJustAText(st) == st.content = "text"

sizeControlType(st) ==
    IF isItJustAText(st) THEN "innerText"
    ELSE IF st.display # "block" /\ st.background.isContainer
         THEN "stickToBackground"
    ELSE "fitToParent"

\* Layout.width / Layout.height getters: the controller's size
layoutWidth(L) == L._width

layoutHeight(L) == L._height

\* innerTextWrap without the assignment of wordWrapWidth
innerTextWrapKeepingWidth(st, text, parentWidth) ==
    LET room == Sub(Sub(parentWidth, st.paddingLeft), st.paddingRight)
    IN  IF ~text.wordWrap /\ Ge(TextWidth(text), room)
        THEN [text EXCEPT !.wordWrap = TRUE]
        ELSE text

\* the word wrap that update() gives the inner text when width is 'auto'
innerTextWrap(st, text, parentWidth) ==
    LET room == Sub(Sub(parentWidth, st.paddingLeft), st.paddingRight)
        t1 == IF ~text.wordWrap /\ Ge(TextWidth(text), room)
              THEN [text EXCEPT !.wordWrap = TRUE]
              ELSE text
    IN  IF t1.wordWrap THEN [t1 EXCEPT !.wordWrapWidth = room] ELSE t1

\* fitToSize with scale.set(finalScaleX, finalScaleY): each axis on its own
fitToSizePerAxis(st, L, parentWidth, parentHeight) ==
    LET boxWidth == Add(Add(L._width, st.marginLeft), st.marginRight)
        boxHeight == Add(Add(L._height, st.marginTop), st.marginBottom)
        maxWidthVal == getNumber(st.maxWidth, parentWidth)
        maxHeightVal == getNumber(st.maxHeight, parentHeight)
    IN  [L EXCEPT !.scale =
            [x |-> IF Gt(Mul(boxWidth, L.scale.x), maxWidthVal)
                   THEN Div(maxWidthVal, boxWidth) ELSE L.scale.x,
             y |-> IF Gt(Mul(boxHeight, L.scale.y), maxHeightVal)
                   THEN Div(maxHeightVal, boxHeight) ELSE L.scale.y]]

fitToSize(st, L, parentWidth, parentHeight) ==
    LET currentScaleX == L.scale.x
        currentScaleY == L.scale.y
        boxWidth == Add(Add(layoutWidth(L), st.marginLeft), st.marginRight)
        boxHeight == Add(Add(layoutHeight(L), st.marginTop), st.marginBottom)
        maxWidthVal == getNumber(st.maxWidth, parentWidth)
        maxHeightVal == getNumber(st.maxHeight, parentHeight)
        fitScaleX == Div(maxWidthVal, boxWidth)
        fitScaleY == Div(maxHeightVal, boxHeight)
        finalScaleX == IF Gt(Mul(boxWidth, currentScaleX), maxWidthVal)
                       THEN fitScaleX ELSE currentScaleX
        finalScaleY == IF Gt(Mul(boxHeight, currentScaleY), maxHeightVal)
                       THEN fitScaleY ELSE currentScaleY
    IN  [L EXCEPT !.scale = [x |-> MathMin(finalScaleX, finalScaleY),
                             y |-> MathMin(finalScaleX, finalScaleY)]]

\* the width and height update() computes before its second zero test, and
\* the inner text as update() leaves it
finalSize(st, L, parentWidth, parentHeight) ==
    LET type == sizeControlType(st)
        text == IF st.width = Auto /\ type = "innerText"
                THEN innerTextWrap(st, L.text, parentWidth)
                ELSE L.text
        w0 == IF st.width = Auto
              THEN CASE type = "innerText" ->
                          Add(Add(TextWidth(text), st.paddingRight), st.paddingLeft)
                     [] type = "stickToBackground" -> st.background.width
                     [] OTHER -> parentWidth
              ELSE getNumber(st.width, parentWidth)
        h0 == IF st.height = Auto
              THEN CASE type = "innerText" ->
                          Add(Add(TextHeight(text), st.paddingBottom), st.paddingTop)
                     [] type = "stickToBackground" -> st.background.height
                     [] OTHER -> R(0)
              ELSE getNumber(st.height, parentHeight)
        w1 == IF st.parent.isLayout THEN Sub(w0, st.parent.padding) ELSE w0
        h1 == IF st.parent.isLayout THEN Sub(h0, st.parent.padding) ELSE h0
    IN  [text |-> text,
         width |-> IF Lt(w1, R(0)) THEN R(0) ELSE w1,
         height |-> IF Lt(h1, R(0)) THEN R(0) ELSE h1]

\* update() returns early, leaving visible = false
resolvesToZero(st, L, parentWidth, parentHeight) ==
    \/ IsLiteralZero(st.width)
    \/ IsLiteralZero(st.height)
    \/ IsZero(finalSize(st, L, parentWidth, parentHeight).width)
    \/ IsZero(finalSize(st, L, parentWidth, parentHeight).height)

\* this.layout.align.update(): the flex alignment of the children
alignChildren(st, L) ==
    [L EXCEPT !.items = flexUpdate(L.items, st, layoutWidth(L))]

\* update() up to an early return: the arguments are stored, the inner text
\* keeps the wrap it was given, visible = false
hidden(L, parentWidth, parentHeight, text) ==
    [L EXCEPT !.parentWidth = parentWidth, !.parentHeight = parentHeight,
              !.text = text, !.visible = FALSE]

\* update() from the second zero test to scale.set(scaleX, scaleY)
sized(st, L, parentWidth, parentHeight, final) ==
    [L EXCEPT !.parentWidth = parentWidth, !.parentHeight = parentHeight,
              !.text = final.text,
              !._width = getNumber(Num(final.width), parentWidth),
              !._height = getNumber(Num(final.height), parentHeight),
              !.scale = [x |-> st.scaleX, y |-> st.scaleY]]

\* if (maxWidth || maxHeight) this.fitToSize(parentWidth, parentHeight)
fitted(st, L, parentWidth, parentHeight) ==
    IF TruthyFlex(st.maxWidth) \/ TruthyFlex(st.maxHeight)
    THEN fitToSize(st, L, parentWidth, parentHeight)
    ELSE L

\* update() after finalWidth and finalHeight are computed
afterSizing(st, L, parentWidth, parentHeight, final) ==
    IF IsZero(final.width) \/ IsZero(final.height)
    THEN hidden(L, parentWidth, parentHeight, final.text)
    ELSE alignChildren(st, fitted(st, sized(st, L, parentWidth, parentHeight, final),
                                  parentWidth, parentHeight))

\* afterSizing with scale.set(scaleX, scaleY) moved before the zero test
afterSizingScaleFirst(st, L, parentWidth, parentHeight, final) ==
    IF IsZero(final.width) \/ IsZero(final.height)
    THEN [hidden(L, parentWidth, parentHeight, final.text)
             EXCEPT !.scale = [x |-> st.scaleX, y |-> st.scaleY]]
    ELSE alignChildren(st, fitted(st, sized(st, L, parentWidth, parentHeight, final),
                                  parentWidth, parentHeight))

\* update() with scale.set(scaleX, scaleY) moved before the zero tests
sizeUpdateScaleFirst(st, L, parentWidth, parentHeight) ==
    IF IsLiteralZero(st.width) \/ IsLiteralZero(st.height)
    THEN [hidden(L, parentWidth, parentHeight, L.text)
             EXCEPT !.scale = [x |-> st.scaleX, y |-> st.scaleY]]
    ELSE afterSizingScaleFirst(st, L, parentWidth, parentHeight,
                               finalSize(st, L, parentWidth, parentHeight))

\* SizeController.update(parentWidth, parentHeight): the layout after the call
sizeUpdate(st, L, parentWidth, parentHeight) ==
    IF IsLiteralZero(st.width) \/ IsLiteralZero(st.height)
    THEN hidden(L, parentWidth, parentHeight, L.text)
    ELSE afterSizing(st, L, parentWidth, parentHeight,
                     finalSize(st, L, parentWidth, parentHeight))

\* set width(width)
setWidth(st, L, width) ==
    alignChildren(st, [L EXCEPT !._width = getNumber(width, L.parentWidth)])

\* set height(height)
setHeight(st, L, height) ==
    alignChildren(st, [L EXCEPT !._height = getNumber(height, L.parentHeight)])

\* the layout as constructed from its description
newLayout(st) ==
    [_width |-> Undefined, _height |-> Undefined,
     parentWidth |-> R(0), parentHeight |-> R(0),
     visible |-> TRUE,
     scale |-> [x |-> R(1), y |-> R(1)],
     text |-> [wordWrap |-> st.wordWrap, wordWrapWidth |-> R(DefaultWordWrapWidth)],
     items |-> [i \in 1..Len(st.children) |->
                  [width |-> st.children[i].width, height |-> st.children[i].height,
                   visible |-> st.children[i].visible, x |-> R(0), y |-> R(0)]]]

----------------------------------------------------------------------------
(* The layouts and the calls that are explored *)

MaxItems == 4

Child(w, h, v) == [width |-> R(w), height |-> R(h), visible |-> v]

NoBackground == [isContainer |-> FALSE, width |-> R(0), height |-> R(0)]

SpriteBackground == [isContainer |-> TRUE, width |-> R(80), height |-> R(40)]

NoParent == [isLayout |-> FALSE, padding |-> R(0)]

PaddedParent == [isLayout |-> TRUE, padding |-> R(10)]

BaseStyle ==
    [width |-> Px(300), height |-> Px(100),
     maxWidth |-> Unset, maxHeight |-> Unset,
     scaleX |-> R(1), scaleY |-> R(1),
     background |-> NoBackground,
     paddingLeft |-> R(0), paddingRight |-> R(0),
     paddingTop |-> R(0), paddingBottom |-> R(0),
     marginLeft |-> R(0), marginRight |-> R(0),
     marginTop |-> R(0), marginBottom |-> R(0),
     display |-> "block",
     parent |-> NoParent,
     content |-> "children",
     wordWrap |-> FALSE,
     children |-> <<Child(50, 10, TRUE), Child(60, 20, TRUE)>>,
     flexDirection |-> "row", flexWrap |-> "nowrap", justifyContent |-> "center"]

\* what the layout holds: flex children, flex children over a sprite
\* background, or a single text (unwrapped or wrapped, bare or padded)
Contents ==
    { BaseStyle,
      [BaseStyle EXCEPT !.display = "inline", !.background = SpriteBackground],
      [BaseStyle EXCEPT !.content = "text", !.children = <<>>],
      [BaseStyle EXCEPT !.content = "text", !.children = <<>>, !.wordWrap = TRUE],
      [BaseStyle EXCEPT !.content = "text", !.children = <<>>,
                        !.paddingLeft = R(5), !.paddingRight = R(5),
                        !.paddingTop = R(2), !.paddingBottom = R(2)] }

Widths == {Px(0), Px(300), Pct(50), Auto}

Heights == {Px(0), Px(100), Pct(50), Auto}

Scales == {<<R(1), R(1)>>, <<R(2), R(1)>>, <<R(1), Frac(1, 2)>>}

Maxes == {<<Px(150), Px(100)>>, <<Px(150), Unset>>, <<Unset, Pct(50)>>,
          <<Px(0), Unset>>, <<Pct(50), Px(100)>>}

Margins == {<<R(0), R(0)>>, <<R(20), R(10)>>}

\* layouts that exercise sizing: every width and height kind over every content
SizeStyles ==
    { [c EXCEPT !.width = w, !.height = h, !.parent = p,
                !.scaleX = s[1], !.scaleY = s[2]] :
        c \in Contents, w \in Widths, h \in Heights,
        p \in {NoParent, PaddedParent}, s \in {<<R(2), Frac(1, 2)>>} }

\* layouts that exercise max-size clamping
FitStyles ==
    { [BaseStyle EXCEPT !.width = w, !.maxWidth = m[1], !.maxHeight = m[2],
                        !.scaleX = s[1], !.scaleY = s[2],
                        !.marginLeft = g[1], !.marginTop = g[2]] :
        w \in {Px(300), Pct(50)}, m \in Maxes, s \in Scales, g \in Margins }

AvailableWidths == {0, 100, 200}

AvailableHeights == {0, 200}

SetterValues == {Px(50), Px(-10)}

NoCall ==
    [op |-> "new", parentWidth |-> R(0), parentHeight |-> R(0), zero |-> FALSE,
     repeat |-> FALSE]

Init ==
    /\ style \in SizeStyles \cup FitStyles
    /\ layout = newLayout(style)
    /\ last = NoCall

\* layout.resize -> size.update(parentWidth, parentHeight)
Update ==
    \E w \in AvailableWidths, h \in AvailableHeights :
        /\ layout' = sizeUpdate(style, layout, R(w), R(h))
        /\ last' = [op |-> "update", parentWidth |-> R(w), parentHeight |-> R(h),
                    zero |-> resolvesToZero(style, layout, R(w), R(h)),
                    repeat |-> /\ last.op = "update"
                               /\ last.parentWidth = R(w)
                               /\ last.parentHeight = R(h)]
        /\ UNCHANGED style

\* layout.width = value
SetWidth ==
    \E v \in SetterValues :
        /\ layout' = setWidth(style, layout, v)
        /\ last' = [op |-> "width", parentWidth |-> layout.parentWidth,
                    parentHeight |-> layout.parentHeight, zero |-> FALSE,
                    repeat |-> FALSE]
        /\ UNCHANGED style

\* layout.height = value
SetHeight ==
    \E v \in SetterValues :
        /\ layout' = setHeight(style, layout, v)
        /\ last' = [op |-> "height", parentWidth |-> layout.parentWidth,
                    parentHeight |-> layout.parentHeight, zero |-> FALSE,
                    repeat |-> FALSE]
        /\ UNCHANGED style

Next == Update \/ SetWidth \/ SetHeight

Spec == Init /\ [][Next]_vars

----------------------------------------------------------------------------
(* Properties of size resolution *)

\* the resolved geometry of the layout and of what it holds
Geometry(L) ==
    [width |-> L._width, height |-> L._height, scale |-> L.scale,
     visible |-> L.visible, text |-> L.text, items |-> L.items]

MaxIsSet == TruthyFlex(style.maxWidth) \/ TruthyFlex(style.maxHeight)

\* C1: a second update with the arguments of the update just before it leaves
\* width, height, scale, visible, the children's positions and the text's
\* wrap state as the first one left them.
C1_Idempotence ==
    [][(last'.op = "update" /\ last'.repeat)
        => Geometry(layout') = Geometry(layout)]_vars

C1_Witness ==
    /\ last.op = "update"
    /\ last.repeat
    /\ ~last.zero
    /\ layout.visible
    /\ Len(layout.items) = 2
    /\ layout.items[1].x # R(0)

\* C2: an update that resolves to a non-zero size leaves the layout visible,
\* as the same update of a newly built layout does, whatever calls came before.
C2_VisibleAgain ==
    (last.op = "update" /\ ~last.zero) => layout.visible

\* C3: an update that resolves to a zero size leaves visible = false and the
\* resolved width and height equal to 0.
C3_ZeroGeometry ==
    (last.op = "update" /\ last.zero)
        => /\ ~layout.visible
           /\ layout._width = R(0)
           /\ layout._height = R(0)

\* C4: an update that resolves to a zero size sets visible = false and leaves
\* the x and y of every child and the layout's scale as they were.
C4_ZeroFrame ==
    [][(last'.op = "update" /\ last'.zero)
        => /\ ~layout'.visible
           /\ layout'.items = layout.items
           /\ layout'.scale = layout.scale]_vars

C4_Witness ==
    /\ last.op = "update"
    /\ last.zero
    /\ Len(layout.items) = 2
    /\ layout.items[1].x # R(0)
    /\ layout.scale # [x |-> R(1), y |-> R(1)]

\* C5: the resolved width and the resolved height, once set, are >= 0.
C5_NonNegative ==
    /\ layout._width # Undefined => Ge(layout._width, R(0))
    /\ layout._height # Undefined => Ge(layout._height, R(0))

\* the scale fit-to-size should choose on one axis: max/box when the box
\* (size plus margins) at the style's scale overflows the max, the style's
\* scale otherwise
Candidate(max, maxPercentValue, box, styleScale) ==
    IF max # Unset /\ Gt(Mul(box, styleScale), getNumber(max, maxPercentValue))
    THEN Div(getNumber(max, maxPercentValue), box)
    ELSE styleScale

CandidateX ==
    Candidate(style.maxWidth, last.parentWidth,
              Add(Add(layout._width, style.marginLeft), style.marginRight),
              style.scaleX)

CandidateY ==
    Candidate(style.maxHeight, last.parentHeight,
              Add(Add(layout._height, style.marginTop), style.marginBottom),
              style.scaleY)

UniformExample ==
    /\ style.width = Px(300)
    /\ style.height = Px(100)
    /\ style.maxWidth = Px(150)
    /\ style.maxHeight = Px(100)
    /\ style.scaleX = R(1)
    /\ style.scaleY = R(1)
    /\ style.marginLeft = R(0)
    /\ style.marginTop = R(0)

C8_Fits ==
    (last.op = "update" /\ ~last.zero /\ MaxIsSet)
        => /\ TruthyFlex(style.maxWidth)
                => Le(Add(Add(Mul(layout._width, layout.scale.x), style.marginLeft),
                          style.marginRight),
                      getNumber(style.maxWidth, last.parentWidth))
           /\ TruthyFlex(style.maxHeight)
                => Le(Add(Add(Mul(layout._height, layout.scale.y), style.marginTop),
                          style.marginBottom),
                      getNumber(style.maxHeight, last.parentHeight))

----------------------------------------------------------------------------
(* Flex alignment on its own: a container of a given width over every short *)
(* list of children, in every direction, wrap mode and justification        *)

ChildKinds == {Child(50, 10, TRUE), Child(60, 20, TRUE), Child(0, 0, FALSE)}

ChildLists == UNION {[1..n -> ChildKinds] : n \in 0..MaxItems}

ContainerWidths == {0, 100, 200}

Justifications ==
    {"start", "end", "center", "space-between", "space-around", "space-evenly",
     "stretch"}

FlexStyles ==
    { [BaseStyle EXCEPT !.children = c, !.flexDirection = d, !.flexWrap = w,
                        !.justifyContent = j] :
        c \in ChildLists, d \in {"row", "row-reverse"},
        w \in {"nowrap", "wrap", "wrap-reverse"}, j \in Justifications }
    \cup
    { [BaseStyle EXCEPT !.children = c, !.flexDirection = d,
                        !.justifyContent = "start"] :
        c \in ChildLists, d \in {"column", "column-reverse"} }
    \cup
    { [BaseStyle EXCEPT !.children = c, !.flexDirection = "diagonal"] :
        c \in ChildLists }

\* where the host left the children before the alignment: at the origin, or
\* all at some other point
PriorPositions == {[x |-> R(0), y |-> R(0)], [x |-> R(7), y |-> R(3)]}

\* the items of a new layout, all moved to the point p
placedAt(st, p) ==
    [i \in 1..Len(st.children) |->
        [newLayout(st).items[i] EXCEPT !.x = p.x, !.y = p.y]]

\* a container whose width has been set (Layout.width = value) and whose
\* children have not been aligned yet
InitFlex ==
    /\ style \in FlexStyles
    /\ \E w \in ContainerWidths, p \in PriorPositions :
           layout = [newLayout(style) EXCEPT !._width = R(w), !._height = R(100),
                                             !.items = placedAt(style, p)]
    /\ last = NoCall

\* FlexAlignController.update()
Align ==
    /\ last.op = "new"
    /\ layout' = [layout EXCEPT !.items = flexUpdate(layout.items, style,
                                                     layoutWidth(layout))]
    /\ last' = [NoCall EXCEPT !.op = IF flexThrows(style) THEN "throw" ELSE "align"]
    /\ UNCHANGED style

NextFlex == Align

SpecFlex == InitFlex /\ [][NextFlex]_vars

----------------------------------------------------------------------------
(* Properties of flex alignment *)

Positions(items) == [i \in 1..Len(items) |-> [x |-> items[i].x, y |-> items[i].y]]

IsVisible(child) == child.visible

RECURSIVE WidthOfFirst(_, _)
\* the sum of the widths of the first k items
WidthOfFirst(items, k) ==
    IF k = 0 THEN R(0) ELSE Add(WidthOfFirst(items, k - 1), items[k].width)

\* C6: the visible children are placed where the alignment of the list
\* without the invisible children places them.
C6_InvisibleExcluded ==
    last.op = "align"
        => Positions(SelectSeq(layout.items, IsVisible))
             = Positions(flexUpdate(SelectSeq(newLayout(style).items, IsVisible),
                                    style, layout._width))

RowNowrapSpaceBetween ==
    /\ last.op = "align"
    /\ style.flexDirection = "row"
    /\ style.flexWrap = "nowrap"
    /\ style.justifyContent = "space-between"

ThreeOfFifty ==
    /\ Len(layout.items) = 3
    /\ \A i \in 1..3 : layout.items[i].width = R(50)
    /\ layout._width = R(200)

\* C9: row, nowrap, space-between: the first child is at 0; with n >= 2 the
\* gap between consecutive children is (W - total)/(n - 1) and the last child
\* ends at W; three children of 50 in 200 are at 0, 75, 150.
C9_SpaceBetween ==
    RowNowrapSpaceBetween =>
        LET items == layout.items
            n == Len(items)
            W == layout._width
            gap == Div(Sub(W, WidthOfFirst(items, n)), R(n - 1))
        IN  /\ n >= 1 => items[1].x = R(0)
            /\ n >= 2 =>
                 /\ \A i \in 1..(n - 1) :
                        Sub(items[i + 1].x, Add(items[i].x, items[i].width)) = gap
                 /\ Add(items[n].x, items[n].width) = W
            /\ ThreeOfFifty =>
                 /\ items[1].x = R(0)
                 /\ items[2].x = R(75)
                 /\ items[3].x = R(150)

C9_Witness ==
    /\ RowNowrapSpaceBetween
    /\ ThreeOfFifty
    /\ layout.items[2].x = R(75)
    /\ layout.items[3].x = R(150)

\* the width of the current line before child i is placed
RECURSIVE LineWidthBefore(_, _, _)
LineWidthBefore(items, W, i) ==
    IF i = 1 THEN R(0)
    ELSE IF Gt(Add(LineWidthBefore(items, W, i - 1), items[i - 1].width), W)
         THEN items[i - 1].width
         ELSE Add(LineWidthBefore(items, W, i - 1), items[i - 1].width)

\* child i starts a new line
StartsLine(items, W, i) == Gt(Add(LineWidthBefore(items, W, i), items[i].width), W)

\* the index of the first child of the line of child i
LineOf(items, W, i) ==
    LET starts == {1} \cup {j \in 1..i : StartsLine(items, W, j)}
    IN  CHOOSE s \in starts : \A t \in starts : t <= s

RECURSIVE WidthBetween(_, _, _)
\* the sum of the widths of the children from..(to - 1)
WidthBetween(items, from, to) ==
    IF from >= to THEN R(0)
    ELSE Add(items[from].width, WidthBetween(items, from + 1, to))

\* the maximum height of the children of the line that starts at s
LineHeightOf(items, W, s) ==
    LET members == {j \in 1..Len(items) : LineOf(items, W, j) = s}
    IN  items[CHOOSE j \in members :
                  \A k \in members : Le(items[k].height, items[j].height)].height

RECURSIVE HeightOfLinesBefore(_, _, _, _)
\* the sum of the heights of the lines that start at from..(to - 1)
HeightOfLinesBefore(items, W, from, to) ==
    IF from >= to THEN R(0)
    ELSE Add(IF LineOf(items, W, from) = from
             THEN LineHeightOf(items, W, from) ELSE R(0),
             HeightOfLinesBefore(items, W, from + 1, to))

RowWrapStart ==
    /\ last.op = "align"
    /\ style.flexDirection = "row"
    /\ style.flexWrap = "wrap"
    /\ style.justifyContent = "start"

FourOfSixty ==
    /\ Len(layout.items) = 4
    /\ \A i \in 1..4 : layout.items[i].width = R(60) /\ layout.items[i].height = R(20)
    /\ layout._width = R(100)

\* C10: row, wrap, start: a child starts a line exactly when the width of the
\* current line plus its own width exceeds the container width; it is then at
\* x = 0, any other child is at the sum of the widths before it on its line,
\* and y is the sum of the maximum heights of the earlier lines; four
\* children of 60 in 100 are on four lines.
C10_WrapStart ==
    RowWrapStart =>
        LET items == layout.items
            W == layout._width
        IN  /\ \A i \in 1..Len(items) :
                 /\ StartsLine(items, W, i) => items[i].x = R(0)
                 /\ items[i].x = WidthBetween(items, LineOf(items, W, i), i)
                 /\ items[i].y = HeightOfLinesBefore(items, W, 1, LineOf(items, W, i))
            /\ FourOfSixty =>
                 \A i \in 1..4 : items[i].x = R(0) /\ items[i].y = R(20 * (i - 1))

C10_Witness ==
    /\ RowWrapStart
    /\ FourOfSixty
    /\ \A i \in 1..4 : layout.items[i].x = R(0) /\ layout.items[i].y = R(20 * (i - 1))

----------------------------------------------------------------------------
(* Layout: resize() of a node built from its options, with the float       *)
(* anchors.  A node holds its styles, its size, its position, what it has  *)
(* drawn (bg, overflowMask), the wordWrapWidth of its Text child (undefined *)
(* without one) and its Layout children.                                    *)

\* a ?? b
Nullish(a, b) == IF a = Undefined THEN b ELSE a

NoRect == [width |-> Undefined, height |-> Undefined]

\* size.width / size.height of resize()
resized(node, parentWidth, parentHeight) ==
    [node EXCEPT
        !.size = [width |-> Nullish(getNumber(node.styles.width, parentWidth),
                                    parentWidth),
                  height |-> Nullish(getNumber(node.styles.height, parentHeight),
                                     parentHeight)]]

\* the bg rectangle, the overflow mask and the opacity of resize()
drawn(node) ==
    [node EXCEPT
        !.bg = IF node.styles.background /\ Truthy(node.size.width)
                  /\ Truthy(node.size.height)
               THEN node.size ELSE @,
        !.overflowMask = IF node.styles.overflow = "hidden" THEN node.size ELSE @,
        !.alpha = Nullish(node.styles.opacity, @)]

\* float() with case 'rightBottom' setting x only
floatRightBottomXOnly(node, width, height) ==
    LET f == node.styles.float
        right == Sub(width, node.size.width)
        bottom == Sub(height, node.size.height)
        centerX == Sub(Div(width, R(2)), Div(node.size.width, R(2)))
        centerY == Sub(Div(height, R(2)), Div(node.size.height, R(2)))
    IN  CASE f \in {"rightTop", "right"} -> [node EXCEPT !.x = right]
          [] f \in {"leftBottom", "bottom"} -> [node EXCEPT !.y = bottom]
          [] f = "rightBottom" -> [node EXCEPT !.x = right]
          [] f = "center" -> [node EXCEPT !.x = centerX, !.y = centerY]
          [] f = "centerTop" -> [node EXCEPT !.x = centerX]
          [] f = "centerBottom" -> [node EXCEPT !.x = centerX, !.y = bottom]
          [] f = "centerLeft" -> [node EXCEPT !.y = centerY]
          [] f = "centerRight" -> [node EXCEPT !.y = centerY, !.x = right]
          [] OTHER -> node

\* Layout.float(width, height)
float(node, width, height) ==
    LET f == node.styles.float
        right == Sub(width, node.size.width)
        bottom == Sub(height, node.size.height)
        centerX == Sub(Div(width, R(2)), Div(node.size.width, R(2)))
        centerY == Sub(Div(height, R(2)), Div(node.size.height, R(2)))
    IN  CASE f \in {"rightTop", "right"} -> [node EXCEPT !.x = right]
          [] f \in {"leftBottom", "bottom"} -> [node EXCEPT !.y = bottom]
          [] f = "rightBottom" -> [node EXCEPT !.x = right, !.y = bottom]
          [] f = "center" -> [node EXCEPT !.x = centerX, !.y = centerY]
          [] f = "centerTop" -> [node EXCEPT !.x = centerX]
          [] f = "centerBottom" -> [node EXCEPT !.x = centerX, !.y = bottom]
          [] f = "centerLeft" -> [node EXCEPT !.y = centerY]
          [] f = "centerRight" -> [node EXCEPT !.y = centerY, !.x = right]
          [] OTHER -> node

RECURSIVE resize(_, _, _)
\* Layout.resizeChildren()
resizeChildren(node) ==
    [node EXCEPT
        !.wordWrapWidth = IF @ = Undefined THEN @ ELSE node.size.width,
        !.kids = [i \in 1..Len(@) |->
                    resize(@[i], node.size.width, node.size.height)]]

\* Layout.resize(parentWidth, parentHeight)
resize(node, parentWidth, parentHeight) ==
    resizeChildren(float(drawn(resized(node, parentWidth, parentHeight)),
                         parentWidth, parentHeight))

\* new Layout(options)
newNode(styles, hasText, kids) ==
    [styles |-> styles,
     size |-> [width |-> R(0), height |-> R(0)],
     x |-> R(0), y |-> R(0), alpha |-> R(1),
     bg |-> NoRect,
     overflowMask |-> NoRect,
     wordWrapWidth |-> IF hasText THEN R(DefaultWordWrapWidth) ELSE Undefined,
     kids |-> kids]

\* the values of the style 'float' that float() knows
FloatNames ==
    {"left", "top", "leftTop", "rightTop", "right", "leftBottom", "bottom",
     "rightBottom", "center", "centerTop", "centerBottom", "centerLeft",
     "centerRight"}

\* what a host may give as 'float': a known value, nothing, or another string
FloatValues == FloatNames \cup {"unset", "bottomRight"}

PlainStyles ==
    [background |-> FALSE, width |-> Px(50), height |-> Px(50),
     opacity |-> Undefined, overflow |-> "visible", float |-> "unset"]

PaintedStyles ==
    [PlainStyles EXCEPT !.background = TRUE, !.opacity = Frac(1, 2),
                        !.overflow = "hidden"]

NodeStyles ==
    { [d EXCEPT !.width = w, !.height = h, !.float = f] :
        d \in {PlainStyles, PaintedStyles},
        w \in {Px(50), Pct(25), Auto}, h \in {Px(50), Pct(50), Auto},
        f \in FloatValues }

\* the content of the root: a string, nothing, or one nested layout
KidLists ==
    { <<>> } \cup
    { <<newNode([PlainStyles EXCEPT !.width = Px(20), !.height = Pct(50),
                                    !.float = f], TRUE, <<>>)>> :
        f \in {"rightBottom", "center"} }

ParentBoxes == {<<200, 100>>, <<100, 60>>, <<0, 0>>}

InitLayout ==
    /\ style \in NodeStyles
    /\ \E kids \in KidLists : layout = newNode(style, kids = <<>>, kids)
    /\ last = NoCall

\* layout.resize(parentWidth, parentHeight)
Resize ==
    \E box \in ParentBoxes :
        /\ layout' = resize(layout, R(box[1]), R(box[2]))
        /\ last' = [NoCall EXCEPT !.op = "resize", !.parentWidth = R(box[1]),
                                  !.parentHeight = R(box[2])]
        /\ UNCHANGED style

NextLayout == Resize

SpecLayout == InitLayout /\ [][NextLayout]_vars

----------------------------------------------------------------------------
(* Properties of the float anchors *)

\* the anchor grid for a node in the box W x H, the far-edge anchors being
\* those of rightNames and bottomNames
OnGrid(node, W, H, rightNames, bottomNames) ==
    LET f == node.styles.float
        w == node.size.width
        h == node.size.height
    IN  /\ f \in {"unset", "left", "top", "leftTop"}
            => node.x = R(0) /\ node.y = R(0)
        /\ f \in rightNames => node.x = Sub(W, w)
        /\ f \in bottomNames => node.y = Sub(H, h)
        /\ f \in {"center", "centerTop", "centerBottom"}
            => node.x = Sub(Div(W, R(2)), Div(w, R(2)))
        /\ f \in {"center", "centerLeft", "centerRight"}
            => node.y = Sub(Div(H, R(2)), Div(h, R(2)))

FiftyInTwoHundred ==
    /\ last.op = "resize"
    /\ layout.size = [width |-> R(50), height |-> R(50)]
    /\ last.parentWidth = R(200)
    /\ last.parentHeight = R(100)

C12_InvalidDirection ==
    [][style.flexDirection \notin {"row", "row-reverse", "column", "column-reverse"}
        => /\ last'.op = "throw"
           /\ Positions(layout'.items) = Positions(layout.items)]_vars

C12_Witness ==
    /\ last.op = "throw"
    /\ style.flexDirection = "diagonal"
    /\ Len(layout.items) = 2
    /\ layout.items[2].x = R(7)
    /\ layout.items[2].y = R(3)

\* C13: the positions after an alignment are those that the same alignment
\* (same container width, same ordered child sizes, same style) gives when
\* the children start at the origin, whatever x and y they held before.
C13_Deterministic ==
    last.op = "align"
        => Positions(layout.items)
             = Positions(flexUpdate(newLayout(style).items, style, layout._width))

----------------------------------------------------------------------------
(* Properties of auto text sizing *)

\* availableWidth - paddingLeft - paddingRight
Room(availableWidth) == Sub(Sub(availableWidth, style.paddingLeft), style.paddingRight)

\* an update of a width-auto layout that holds a single text, not wrapping
\* and at least as wide as the room
OverflowingText ==
    /\ last'.op = "update"
    /\ style.width = Auto
    /\ isItJustAText(style)
    /\ ~layout.text.wordWrap
    /\ Ge(TextWidth(layout.text), Room(last'.parentWidth))

\* C14 as stated: such an update turns wrapping on at the room's width, and
\* the resolved width is the wrapped text's width + paddingLeft + paddingRight,
\* at most availableWidth when the wrapped text is no wider than its wrap width.
C14_AutoTextAsStated ==
    [][OverflowingText
        => /\ layout'.text.wordWrap
           /\ layout'.text.wordWrapWidth = Room(last'.parentWidth)
           /\ layout'._width = Add(Add(TextWidth(layout'.text), style.paddingLeft),
                                   style.paddingRight)
           /\ Le(TextWidth(layout'.text), layout'.text.wordWrapWidth)
                => Le(layout'._width, last'.parentWidth)]_vars

\* C14 (amended): such an update, when it resolves to a non-zero size, turns
\* wrapping on at the room's width, and the resolved width is the wrapped
\* text's width + paddingLeft + paddingRight less the padding of a parent that
\* is a layout, at most availableWidth when the wrapped text is no wider than
\* its wrap width.
C14_AutoText ==
    [][(OverflowingText /\ ~last'.zero)
        => /\ layout'.text.wordWrap
           /\ layout'.text.wordWrapWidth = Room(last'.parentWidth)
           /\ layout'._width
                = Sub(Add(Add(TextWidth(layout'.text), style.paddingLeft),
                          style.paddingRight),
                      IF style.parent.isLayout THEN style.parent.padding ELSE R(0))
           /\ Le(TextWidth(layout'.text), layout'.text.wordWrapWidth)
                => Le(layout'._width, last'.parentWidth)]_vars

\* the padded text of 120 in 100: wrapped at 90, two words a line, 80 + 10
C14_Witness ==
    /\ last.op = "update"
    /\ ~last.zero
    /\ style.width = Auto
    /\ isItJustAText(style)
    /\ ~style.wordWrap
    /\ style.paddingLeft = R(5)
    /\ ~style.parent.isLayout
    /\ last.parentWidth = R(100)
    /\ layout.text = [wordWrap |-> TRUE, wordWrapWidth |-> R(90)]
    /\ layout._width = R(90)

----------------------------------------------------------------------------
(* Properties of the justified wrap lines *)

\* the index of the last child of the line that starts at s
LineEnd(items, W, s) ==
    LET members == {j \in 1..Len(items) : LineOf(items, W, j) = s}
    IN  CHOOSE e \in members : \A j \in members : j <= e

\* the first children of the lines
LineStarts(items, W) == {LineOf(items, W, i) : i \in 1..Len(items)}

\* the children of the line that starts at s, as a list of their own
LineItems(items, W, s) == SubSeq(items, s, LineEnd(items, W, s))

RowWrapJustified ==
    /\ last.op = "align"
    /\ style.flexDirection = "row"
    /\ style.flexWrap = "wrap"
    /\ style.justifyContent \in {"end", "center", "space-around", "space-evenly"}

\* C15: row, wrap, with end, center, space-around or space-evenly: on every
\* line, the last one included, the children have the x that nowrap with the
\* same justification gives to the children of that line alone in a
\* container of the same width.
C15_LinesAsNowrap ==
    RowWrapJustified =>
        LET items == layout.items
            W == layout._width
        IN  \A s \in LineStarts(items, W) :
                \A i \in s..LineEnd(items, W, s) :
                    items[i].x
                      = alignNowrap(LineItems(items, W, s), style.justifyContent,
                                    W)[i - s + 1].x

\* two lines, the first with two children, the last with one, centered
C15_Witness ==
    /\ RowWrapJustified
    /\ style.justifyContent = "center"
    /\ layout._width = R(100)
    /\ Len(layout.items) = 3
    /\ \A i \in 1..3 : layout.items[i].width = R(50)
    /\ layout.items[1].x = R(0)
    /\ layout.items[2].x = R(50)
    /\ layout.items[3].x = R(25)
    /\ layout.items[3].y = R(10)

RowWrapSpaceBetween ==
    /\ last.op = "align"
    /\ style.flexDirection = "row"
    /\ style.flexWrap = "wrap"
    /\ style.justifyContent = "space-between"

\* C16: row, wrap, space-between: on every line the first child is at x = 0;
\* on a line of k >= 2 children consecutive children are separated by
\* (W - the widths of the line)/(k - 1); a line of one child has it at x = 0;
\* every x is a finite number.
C16_WrapSpaceBetween ==
    RowWrapSpaceBetween =>
        LET items == layout.items
            W == layout._width
        IN  /\ \A i \in 1..Len(items) : IsFinite(items[i].x)
            /\ \A s \in LineStarts(items, W) :
                 LET e == LineEnd(items, W, s)
                     gap == Div(Sub(W, WidthBetween(items, s, e + 1)), R(e - s))
                 IN  /\ items[s].x = R(0)
                     /\ e > s =>
                          \A i \in s..(e - 1) :
                              Sub(items[i + 1].x, Add(items[i].x, items[i].width))
                                = gap

RowWrapReverse ==
    /\ last.op = "align"
    /\ style.flexDirection = "row"
    /\ style.flexWrap = "wrap-reverse"

\* C17: row, wrap-reverse: the lines and the x of every child are those of
\* wrap with start justification, and the y of a line is the sum of the
\* maximum child heights of the lines computed after it, so that the first
\* computed line is the lowest and no two lines overlap.
C17_WrapReverse ==
    RowWrapReverse =>
        LET items == layout.items
            W == layout._width
        IN  \A i \in 1..Len(items) :
                /\ items[i].x = WidthBetween(items, LineOf(items, W, i), i)
                /\ items[i].y
                     = HeightOfLinesBefore(items, W,
                                           LineEnd(items, W, LineOf(items, W, i)) + 1,
                                           Len(items) + 1)

\* C18: in a row, nowrap or wrap, an alignment under justifyContent =
\* stretch leaves the children where the same alignment under justifyContent
\* = start leaves them, wherever they were before.
C18_StretchAsStart ==
    [][(/\ last'.op = "align"
        /\ style.flexDirection = "row"
        /\ style.flexWrap \in {"nowrap", "wrap"}
        /\ style.justifyContent = "stretch")
        => Positions(layout'.items)
             = Positions(flexUpdate(layout.items,
                                    [style EXCEPT !.justifyContent = "start"],
                                    layout._width))]_vars

----------------------------------------------------------------------------
(* Properties of the reverse directions and of the single row *)

RECURSIVE HeightBetween(_, _, _)
\* the sum of the heights of the children from..(to - 1)
HeightBetween(items, from, to) ==
    IF from >= to THEN R(0)
    ELSE Add(items[from].height, HeightBetween(items, from + 1, to))

\* the children in their stored order, by size
Sizes(items) ==
    [i \in 1..Len(items) |->
        [width |-> items[i].width, height |-> items[i].height,
         visible |-> items[i].visible]]

\* C19: after an alignment under column-reverse child i is at y = the sum of
\* the heights of the children after it (the last at y = 0); under
\* row-reverse, nowrap, start child i is at x = the sum of the widths of the
\* children after it (the last at x = 0); the children are stored in the
\* order they were given in.
C19_ReverseDirections ==
    last.op = "align" =>
        LET items == layout.items
            n == Len(items)
        IN  /\ style.flexDirection = "column-reverse" =>
                 /\ n >= 1 => items[n].y = R(0)
                 /\ \A i \in 1..n : items[i].y = HeightBetween(items, i + 1, n + 1)
            /\ (/\ style.flexDirection = "row-reverse"
                /\ style.flexWrap = "nowrap"
                /\ style.justifyContent = "start") =>
                 /\ n >= 1 => items[n].x = R(0)
                 /\ \A i \in 1..n : items[i].x = WidthBetween(items, i + 1, n + 1)
            /\ style.flexDirection \in {"row-reverse", "column-reverse"}
                 => Sizes(items) = style.children

C19_Witness ==
    /\ last.op = "align"
    /\ style.flexDirection = "column-reverse"
    /\ style.children = <<Child(50, 10, TRUE), Child(60, 20, TRUE), Child(50, 10, TRUE)>>
    /\ layout.items[1].y = R(30)
    /\ layout.items[2].y = R(10)
    /\ layout.items[3].y = R(0)

\* a nowrap row whose children fit in the container, under a justification
\* that places them
RowNowrapFitting ==
    /\ last.op = "align"
    /\ style.flexDirection = "row"
    /\ style.flexWrap = "nowrap"
    /\ Le(WidthOfFirst(layout.items, Len(layout.items)), layout._width)
    /\ \/ style.justifyContent \in {"start", "end", "center", "space-around",
                                    "space-evenly"}
       \/ style.justifyContent = "space-between" /\ Len(layout.items) >= 2

\* C20: in a nowrap row whose children fit, under start, end, center,
\* space-between (n >= 2), space-around or space-evenly, each child begins at
\* or after the right edge of the child before it, the first begins at or
\* after 0 and the last ends at or before the container width.
C20_OrderedInside ==
    RowNowrapFitting =>
        LET items == layout.items
            n == Len(items)
        IN  /\ \A i \in 1..(n - 1) :
                 Ge(items[i + 1].x, Add(items[i].x, items[i].width))
            /\ n >= 1 =>
                 /\ Ge(items[1].x, R(0))
                 /\ Le(Add(items[n].x, items[n].width), layout._width)

\* 50 and 60 in 200, space-evenly: gaps of 30
C20_Witness ==
    /\ RowNowrapFitting
    /\ style.justifyContent = "space-evenly"
    /\ layout._width = R(200)
    /\ Len(layout.items) = 2
    /\ layout.items[1].width = R(50)
    /\ layout.items[2].width = R(60)
    /\ layout.items[1].x = R(30)
    /\ layout.items[2].x = R(110)

====
